---- MODULE Spec2Model ----
(***************************************************************************)
(* A model of the Loopy looper: the DelayEffect class (DelayEffect.h/.cpp), *)
(* the LFO bank (lfo.cpp) and the per-sample looper of render.cpp.          *)
(*                                                                         *)
(* Numbers.  Every float of the program is held as an integer number of    *)
(* 1/Scale units (fixed point).  A C expression assigned to a float is     *)
(* evaluated exactly and rounded once, toward zero, when it is stored.     *)
(* unsigned int is modelled with UIntBits bits (the model checker's        *)
(* integers are 32-bit signed, so 2^32 itself cannot be written).          *)
(* The looper's read cursor readIndex, the one float that grows with the   *)
(* buffer length, is in addition rounded to FloatBits significant bits.    *)
(***************************************************************************)
EXTENDS Integers, Sequences, FiniteSets, TLC

(* ------------------------------ bounds --------------------------------- *)
Scale == 100
UIntBits == 16
MaxBuf == 2
MaxCalls == 2
MaxImpulseBuf == 4
MaxLfoRuns == 3
MaxLfoUpdates == 2
gBufferSize == 3
RenderRate == 2
AudioFrames == 2
AnalogFrames == 1
MaxTicks == 5
\* significand bits of the float that holds the looper's read cursor
FloatBits == 8

UIntModulus == 2 ^ UIntBits

(* ---------------------------- fixed point ------------------------------ *)
\* n/d rounded toward zero (d > 0): the rounding of a float store.
Trunc(n, d) == IF n >= 0 THEN n \div d ELSE -((-n) \div d)

\* The literal num/den as a fixed-point value.
Fx(num, den) == Trunc(num * Scale, den)

Abs(v) == IF v < 0 THEN -v ELSE v

Min(a, b) == IF a < b THEN a ELSE b

(* ------------------------------ state ---------------------------------- *)
VARIABLES
    \* the DelayEffect object: a record of its members (DelayEffect.h:28-42)
    delayEffect,
    \* processSample's locals floorPos and nextPos and its return value, as
    \* last computed
    floorPos, nextPos, output,
    \* "ready", or "stuck" once processSample has been entered with
    \* bufferSize = 0 (its wrap loop cannot end)
    dpc,
    \* number of processSample calls so far
    nCalls,
    \* the argument of the last setDelayTime call (the constructor's included)
    lastDelayTimeSec,
    \* the lfoparams block (lfo.cpp) and the value run_lfo last returned
    lp, lfo_out,
    \* the arguments init_lfo was given, how often run_lfo and update_lfo
    \* ran, and whether every run_lfo call so far had INT_TRI selected
    initArgs, nRun, nUpdates, allIntTri,
    \* which coefficient the exponential oscillator was last given by init_lfo
    \* or run_exp_lfo: "decay" (exp_ik) or "growth" (exp_k)
    expDir,
    \* render.cpp: the looper's globals and render's statics; gAudioBuffer
    \* and out are held in 1/(4*Scale) units, so that the overdub gain 0.75
    \* is exact, as it is in float
    gAudioBuffer, gWritePointer, gReadPointer, readIndex,
    gRecording, gPlaying, gClearedOnce, gPlaybackSpeed,
    localLastButtonState, localLastClearButtonState,
    \* the level last written to gLEDPin, the sample last written to the
    \* audio outputs, and the frame index n of render's loop
    led, out, n,
    \* per slot, the sum of the samples recorded into it since the last clear
    recSum,
    \* what the last tick did: the slot it recorded into and the slot it
    \* played (-1: it did not), whether it cleared, and whether it saw the
    \* record/play control go from released to pressed
    recSlot, playSlot, cleared, pressed,
    \* the sample the last tick read from the looper (0: it did not play), and
    \* whether a clear has happened with no non-zero sample recorded since
    playSample, zeroSinceClear,
    \* number of sample ticks so far
    nTicks

delayVars == <<delayEffect, floorPos, nextPos, output, dpc, nCalls, lastDelayTimeSec>>

lfoVars == <<lp, lfo_out, initArgs, nRun, nUpdates, allIntTri, expDir>>

renderVars == <<gAudioBuffer, gWritePointer, gReadPointer, readIndex, gRecording,
                gPlaying, gClearedOnce, gPlaybackSpeed, localLastButtonState,
                localLastClearButtonState, led, out, n, recSum, recSlot,
                playSlot, cleared, pressed, playSample, zeroSinceClear, nTicks>>

vars == <<delayVars, lfoVars, renderVars>>

(* ---------------------------- DelayEffect ------------------------------ *)
\* template clampValue
clampValue(value, minVal, maxVal) ==
    IF value < minVal THEN minVal
    ELSE IF value > maxVal THEN maxVal
    ELSE value

\* (unsigned int)(delayTimeSec * sampleRate): the values the conversion can
\* give.  A product whose truncation toward zero lies in 0 .. 2^w - 1 gives
\* that truncation.  A product of -1 or less, or of 2^w or more, is not
\* representable and the conversion is undefined: a saturating conversion
\* (ARM vcvt) gives 0 below the range and 2^w - 1 above it, a wrapping one
\* (x86-64 cvttss2si) gives trunc(product) modulo 2^w.
ToUnsigned(product) ==
    LET t == Trunc(product, Scale)
    IN  IF product > -Scale /\ t < UIntModulus
        THEN {t}
        ELSE {IF t < 0 THEN 0 ELSE UIntModulus - 1, t % UIntModulus}

\* bufferSize - 1 in unsigned arithmetic.
UnsignedPred(bs) == (bs - 1) % UIntModulus

\* samples = std::min(samples, bufferSize - 1)
ClampSamples(samples, bs) == Min(samples, UnsignedPred(bs))

\* The targets setDelayTime(delayTimeSec) can store.
SetDelayTimeTargets(sr, bs, delayTimeSec) ==
    { ClampSamples(s, bs) * Scale : s \in ToUnsigned(delayTimeSec * sr) }

\* DelayEffect::setDelayTime: the objects it can leave.
SetDelayTime(d, delayTimeSec) ==
    { [d EXCEPT !.targetDelayTimeInSamples = t] :
        t \in SetDelayTimeTargets(d.sampleRate, d.bufferSize, delayTimeSec) }

\* DelayEffect::setFeedback
SetFeedback(d, feedbackAmount) ==
    [d EXCEPT !.feedback = clampValue(feedbackAmount, 0, Scale)]

\* DelayEffect::setMix
SetMix(d, mixAmount) == [d EXCEPT !.mix = clampValue(mixAmount, 0, Scale)]

\* DelayEffect::setTimeSmoothingFactor
SetTimeSmoothingFactor(d, factor) ==
    [d EXCEPT !.timeSmoothingFactor = clampValue(factor, 0, Scale)]

\* DelayEffect::DelayEffect(sr, delayTimeSec, feedbackAmount, bufSize): the
\* objects it can build.
Construct(sr, delayTimeSec, feedbackAmount, bufSize) ==
    LET d0 == [sampleRate |-> sr,
               bufferSize |-> bufSize,
               writePointer |-> 0,
               currentDelayTimeInSamples |-> 0,
               targetDelayTimeInSamples |-> 0,
               timeSmoothingFactor |-> Fx(1, 100),
               feedback |-> Fx(1, 2),
               mix |-> Fx(1, 2),
               delayBuffer |-> [i \in 0 .. bufSize - 1 |-> 0]]
    IN  { SetMix(SetFeedback(
              [d1 EXCEPT !.currentDelayTimeInSamples = d1.targetDelayTimeInSamples],
              feedbackAmount), Fx(1, 2)) :
          d1 \in SetDelayTime(d0, delayTimeSec) }

\* The smoothing step taken twice as far.
SmoothOvershoot(cur, tgt, f) == cur + Trunc(2 * f * (tgt - cur), Scale)

\* float diff = target - current; current += timeSmoothingFactor * diff
Smooth(cur, tgt, f) == cur + Trunc(f * (tgt - cur), Scale)

\* while(desiredRead < 0.f) desiredRead += (float)bufferSize;
RECURSIVE WrapUp(_, _)
WrapUp(desiredRead, bs) ==
    IF desiredRead < 0 THEN WrapUp(desiredRead + bs * Scale, bs) ELSE desiredRead

\* while(desiredRead >= (float)bufferSize) desiredRead -= (float)bufferSize;
RECURSIVE WrapDown(_, _)
WrapDown(desiredRead, bs) ==
    IF desiredRead >= bs * Scale THEN WrapDown(desiredRead - bs * Scale, bs)
    ELSE desiredRead

\* The ring buffer read position of processSample.
DesiredRead(wp, cur, bs) == WrapDown(WrapUp(wp * Scale - cur, bs), bs)

\* (int)std::floor(desiredRead)
FloorPos(desiredRead) == desiredRead \div Scale

\* (floorPos + 1) % bufferSize
NextPos(fp, bs) == (fp + 1) % bs

\* The write cursor advanced without its wrap.
AdvanceWriteNoWrap(wp, bs) == wp + 1

\* writePointer = (writePointer + 1) % bufferSize
AdvanceWrite(wp, bs) == (wp + 1) % bs

\* (1.f - frac)*delayBuffer[floorPos] + frac*delayBuffer[nextPos]
DelayedSample(buf, fp, np, frac) ==
    Trunc((Scale - frac) * buf[fp] + frac * buf[np], Scale)

\* (1.f - mix)*inputSample + mix*delayedSample
MixOutput(mx, inputSample, delayedSample) ==
    Trunc((Scale - mx) * inputSample + mx * delayedSample, Scale)

\* inputSample + delayedSample * feedback
WriteValue(inputSample, delayedSample, fb) ==
    inputSample + Trunc(delayedSample * fb, Scale)

\* DelayEffect::processSample on an object with bufferSize > 0: the object
\* it leaves, its return value and its two read slots.
ProcessSample(d, inputSample) ==
    LET cur == Smooth(d.currentDelayTimeInSamples, d.targetDelayTimeInSamples,
                      d.timeSmoothingFactor)
        desiredRead == DesiredRead(d.writePointer, cur, d.bufferSize)
        fp == FloorPos(desiredRead)
        frac == desiredRead - fp * Scale
        np == NextPos(fp, d.bufferSize)
        delayedSample == DelayedSample(d.delayBuffer, fp, np, frac)
    IN  [d |-> [d EXCEPT
                  !.currentDelayTimeInSamples = cur,
                  !.delayBuffer[d.writePointer] =
                      WriteValue(inputSample, delayedSample, d.feedback),
                  !.writePointer = AdvanceWrite(d.writePointer, d.bufferSize)],
         output |-> MixOutput(d.mix, inputSample, delayedSample),
         floorPos |-> fp,
         nextPos |-> np]

\* processSample with bufferSize = 0: the smoothing statements run, and then
\* neither wrap loop can end (each adds or subtracts 0).
ProcessSampleStuck(d) ==
    [d EXCEPT !.currentDelayTimeInSamples =
                  Smooth(d.currentDelayTimeInSamples, d.targetDelayTimeInSamples,
                         d.timeSmoothingFactor)]

(* ---------------------- the delay line's calls ------------------------- *)
\* one call of setDelayTime
setDelayTime(delayTimeSec) ==
    /\ dpc = "ready"
    /\ delayEffect' \in SetDelayTime(delayEffect, delayTimeSec)
    /\ lastDelayTimeSec' = delayTimeSec
    /\ UNCHANGED <<floorPos, nextPos, output, dpc, nCalls, lfoVars, renderVars>>

\* one call of setFeedback
setFeedback(feedbackAmount) ==
    /\ dpc = "ready"
    /\ delayEffect' = SetFeedback(delayEffect, feedbackAmount)
    /\ UNCHANGED <<floorPos, nextPos, output, dpc, nCalls, lastDelayTimeSec, lfoVars, renderVars>>

\* one call of setMix
setMix(mixAmount) ==
    /\ dpc = "ready"
    /\ delayEffect' = SetMix(delayEffect, mixAmount)
    /\ UNCHANGED <<floorPos, nextPos, output, dpc, nCalls, lastDelayTimeSec, lfoVars, renderVars>>

\* one call of setTimeSmoothingFactor
setTimeSmoothingFactor(factor) ==
    /\ dpc = "ready"
    /\ delayEffect' = SetTimeSmoothingFactor(delayEffect, factor)
    /\ UNCHANGED <<floorPos, nextPos, output, dpc, nCalls, lastDelayTimeSec, lfoVars, renderVars>>

\* one call of processSample
processSample(inputSample) ==
    /\ dpc = "ready"
    /\ nCalls' = nCalls + 1
    /\ IF delayEffect.bufferSize = 0
       THEN /\ delayEffect' = ProcessSampleStuck(delayEffect)
            /\ dpc' = "stuck"
            /\ UNCHANGED <<floorPos, nextPos, output>>
       ELSE LET r == ProcessSample(delayEffect, inputSample)
            IN  /\ delayEffect' = r.d
                /\ output' = r.output
                /\ floorPos' = r.floorPos
                /\ nextPos' = r.nextPos
                /\ dpc' = "ready"
    /\ UNCHANGED <<lastDelayTimeSec, lfoVars, renderVars>>

(* ------------------------------- LFO ----------------------------------- *)
LfoTypes == {"INT_TRI", "TRI", "SINE", "SQUARE", "EXP", "RELAX", "HYPER", "HYPER_SINE"}

\* sin(2.0 * M_PI * phase / 360.0), for a phase that is a multiple of 90
SinDeg(phase) ==
    LET q == (phase % 360) \div 90
    IN  IF q = 1 THEN Scale ELSE IF q = 3 THEN -Scale ELSE 0

\* cos(2.0 * M_PI * phase / 360.0), for a phase that is a multiple of 90
CosDeg(phase) ==
    LET q == (phase % 360) \div 90
    IN  IF q = 0 THEN Scale ELSE IF q = 2 THEN -Scale ELSE 0

\* expf(-a), a >= 0, by the first terms of its series in Horner form;
\* expf(0) is exactly 1.
RECURSIVE ExpHorner(_, _, _)
ExpHorner(a, k, r) ==
    IF k = 0 THEN r ELSE ExpHorner(a, k - 1, Scale - Trunc(a * r, k * Scale))

ExpNeg(a) == ExpHorner(a, 8, Scale)

\* 1.0 / M_E
InvE == Fx(36788, 100000)

\* 1.0 / (1.0 - 1.0 / M_E)
RlxIe == Fx(158198, 100000)

\* 4.0 * frq * frq * ts * ts, with frq = 2.0 * fosc and ts = 1.0 / fs
StepT(fosc, fs) == Trunc(4 * (2 * fosc) * (2 * fosc), Scale * fs * fs)

\* 2.0 * ts * frq
BoundK(fosc, fs) == Trunc(2 * (2 * fosc), fs)

\* The startup count taken from the signed phase.
StartupDelaySigned(fosc, fs, phase) == Trunc(phase * fs * Scale, 180 * (2 * fosc))

\* p = phase / 180.0; if(p < 0.0) p = -p; p /= frq; p *= fs; (int) p
StartupDelay(fosc, fs, phase) == Trunc(Abs(phase) * fs * Scale, 180 * (2 * fosc))

\* init_lfo (fosc > 0)
InitLfo(fosc, fs, phase) ==
    LET frq == 2 * fosc
        t == StepT(fosc, fs)
        p0 == Trunc(frq * phase * Scale, 360 * fosc)
        p1 == IF p0 >= Scale THEN p0 - Scale ELSE p0
        s1 == IF p0 >= Scale THEN -Scale ELSE Scale
        p2 == IF p1 < 0 THEN 0 ELSE p1
        s2 == IF p1 < 0 THEN Scale ELSE s1
        rk == ExpNeg(Trunc(2 * fosc, fs))
        ek == ExpNeg(Trunc(2 * 13133 * fosc, 10000 * fs))
    IN  [startup_delay |-> StartupDelay(fosc, fs, phase),
         k |-> BoundK(fosc, fs), k_ |-> BoundK(fosc, fs),
         nk |-> -BoundK(fosc, fs), nk_ |-> -BoundK(fosc, fs),
         psign |-> t, psign_ |-> t, nsign |-> -t, nsign_ |-> -t,
         sign |-> t, sign_ |-> t,
         lfo |-> 0, x |-> 0,
         ktri |-> Trunc(frq, fs), trisign |-> s2, trilfo |-> p2,
         ksin |-> Trunc(355 * frq, 113 * fs),
         sin_part |-> SinDeg(phase), cos_part |-> CosDeg(phase),
         rlx_k |-> rk, rlx_ik |-> Scale - rk,
         rlx_sign |-> RlxIe, rlx_max |-> RlxIe, rlx_min |-> Scale - RlxIe,
         rlx_lfo |-> 0,
         exp_ik |-> ek, exp_k |-> Trunc(Scale * Scale, ek), exp_x |-> ek,
         exp_min |-> InvE, exp_max |-> Scale + InvE, exp_sv |-> InvE,
         current_rate |-> fosc,
         lfo_type |-> "INT_TRI"]

\* A rate change that also restarts every oscillator.
UpdateLfoRestart(l, fosc, fs) ==
    IF fosc > 0 THEN InitLfo(fosc, fs, 0) ELSE [l EXCEPT !.x = 0, !.trilfo = 0]

\* update_lfo
UpdateLfo(l, fosc, fs) ==
    LET frq == 2 * fosc
        t == StepT(fosc, fs)
        rk == ExpNeg(Trunc(2 * fosc, fs))
        ek == ExpNeg(Trunc(2 * 13133 * fosc, 10000 * fs))
        ekinv == Trunc(Scale * Scale, ek)
        sv1 == IF l.exp_sv < InvE THEN InvE ELSE l.exp_sv
        sv2 == IF sv1 > Scale + InvE THEN Scale + InvE ELSE sv1
    IN  [l EXCEPT
           !.current_rate = fosc,
           !.k_ = BoundK(fosc, fs), !.nk_ = -BoundK(fosc, fs),
           !.psign_ = t, !.nsign_ = -t, !.sign_ = t,
           !.ktri = Trunc(frq, fs),
           !.ksin = Trunc(355 * frq, 113 * fs),
           !.rlx_k = rk, !.rlx_ik = Scale - rk,
           !.exp_ik = ek, !.exp_k = ekinv,
           !.exp_x = IF l.exp_x >= Scale THEN ekinv ELSE ek,
           !.exp_min = InvE, !.exp_max = Scale + InvE,
           !.exp_sv = sv2]

\* if(lp->startup_delay > 0) { lp->startup_delay -= 1; lp->lfo = 0.0; return 0.0; }
StartupWait(l) == [l EXCEPT !.startup_delay = @ - 1, !.lfo = 0]

\* An integrated triangle whose turn keeps the step and the bounds it had.
RunIntegratedTriangleLfoOld(l) ==
    IF l.startup_delay > 0
    THEN [lp |-> StartupWait(l), out |-> 0]
    ELSE LET x1 == l.x + l.sign
             l1 == IF x1 >= l.k THEN [l EXCEPT !.sign = l.nsign, !.x = l.k]
                   ELSE IF x1 <= l.nk THEN [l EXCEPT !.sign = l.psign, !.x = l.nk]
                   ELSE [l EXCEPT !.x = x1]
             a0 == l1.lfo + l1.x
             a1 == IF a0 > Scale THEN Scale ELSE a0
             a2 == IF a1 < 0 THEN 0 ELSE a1
         IN  [lp |-> [l1 EXCEPT !.lfo = a2], out |-> a2]

\* run_integrated_triangle_lfo
RunIntegratedTriangleLfo(l) ==
    IF l.startup_delay > 0
    THEN [lp |-> StartupWait(l), out |-> 0]
    ELSE LET x1 == l.x + l.sign
             l1 == IF x1 >= l.k
                   THEN [l EXCEPT !.sign = l.nsign_, !.x = l.k_,
                                  !.k = l.k_, !.nk = l.nk_]
                   ELSE IF x1 <= l.nk
                   THEN [l EXCEPT !.sign = l.psign_, !.x = l.nk_,
                                  !.k = l.k_, !.nk = l.nk_]
                   ELSE [l EXCEPT !.x = x1]
             a0 == l1.lfo + l1.x
             a1 == IF a0 > Scale THEN Scale ELSE a0
             a2 == IF a1 < 0 THEN 0 ELSE a1
         IN  [lp |-> [l1 EXCEPT !.lfo = a2], out |-> a2]

\* run_triangle_lfo
RunTriangleLfo(l) ==
    LET v == l.trilfo + Trunc(l.ktri * l.trisign, Scale)
        s1 == IF v >= Scale THEN -Scale ELSE l.trisign
        s2 == IF v <= 0 THEN Scale ELSE s1
    IN  [lp |-> [l EXCEPT !.trilfo = v, !.trisign = s2], out |-> v]

\* run_sine_lfo
RunSineLfo(l) ==
    LET s == l.sin_part + Trunc(l.cos_part * l.ksin, Scale)
        c == l.cos_part - Trunc(s * l.ksin, Scale)
    IN  [lp |-> [l EXCEPT !.sin_part = s, !.cos_part = c],
         out |-> Trunc(Scale + c, 2)]

\* run_rlx_lfo
RunRlxLfo(l) ==
    LET v == Trunc(l.rlx_sign * l.rlx_ik + l.rlx_k * l.rlx_lfo, Scale)
        sg == IF v >= Scale THEN l.rlx_min
              ELSE IF v <= 0 THEN l.rlx_max
              ELSE l.rlx_sign
    IN  [lp |-> [l EXCEPT !.rlx_lfo = v, !.rlx_sign = sg], out |-> v]

\* run_exp_lfo
RunExpLfo(l) ==
    LET v == Trunc(l.exp_sv * l.exp_x, Scale)
        ex == IF v >= l.exp_max THEN l.exp_ik
              ELSE IF v <= l.exp_min THEN l.exp_k
              ELSE l.exp_x
    IN  [lp |-> [l EXCEPT !.exp_sv = v, !.exp_x = ex], out |-> v - l.exp_min]

\* The soft clip of the SQUARE case: amplify and soft-clip the sine wave.
SquareShape(sine) ==
    LET o == sine - Fx(1, 2)
        c == IF o > 0 THEN Trunc(o * Scale, Scale + 30 * o)
             ELSE Trunc(o * Scale, Scale - 30 * o)
    IN  16 * c + Fx(1, 2)

\* 1.0f - fabsf(lfo_out - 0.5f)
HyperFold(v) == Scale - Abs(v - Fx(1, 2))

\* A step that advances the sine and triangle oscillators whatever the type.
RunLfoAll(l) == RunIntegratedTriangleLfo(RunTriangleLfo(RunSineLfo(l).lp).lp)

\* run_lfo: the block it leaves and the value it returns
RunLfo(l) ==
    CASE l.lfo_type = "INT_TRI" -> RunIntegratedTriangleLfo(l)
      [] l.lfo_type = "TRI" -> RunTriangleLfo(l)
      [] l.lfo_type = "SINE" -> RunSineLfo(l)
      [] l.lfo_type = "SQUARE" ->
            LET r == RunSineLfo(l) IN [lp |-> r.lp, out |-> SquareShape(r.out)]
      [] l.lfo_type = "EXP" -> RunExpLfo(l)
      [] l.lfo_type = "RELAX" -> RunRlxLfo(l)
      [] l.lfo_type = "HYPER" ->
            LET r == RunIntegratedTriangleLfo(l)
            IN [lp |-> r.lp, out |-> HyperFold(r.out)]
      [] l.lfo_type = "HYPER_SINE" ->
            LET r == RunSineLfo(l) IN [lp |-> r.lp, out |-> HyperFold(r.out)]
      [] OTHER -> RunIntegratedTriangleLfo(l)

\* the members of lfoparams each oscillator function reads or writes
IntTriFields == {"startup_delay", "k", "k_", "nk", "nk_", "psign", "psign_",
                 "nsign", "nsign_", "sign", "sign_", "lfo", "x"}
TriFields == {"ktri", "trisign", "trilfo"}
SineFields == {"ksin", "sin_part", "cos_part"}
RlxFields == {"rlx_k", "rlx_ik", "rlx_sign", "rlx_max", "rlx_min", "rlx_lfo"}
ExpFields == {"exp_ik", "exp_k", "exp_x", "exp_min", "exp_max", "exp_sv"}

\* the members the case of run_lfo for a type uses
UsedBy(type) ==
    CASE type = "TRI" -> TriFields
      [] type \in {"SINE", "SQUARE", "HYPER_SINE"} -> SineFields
      [] type = "EXP" -> ExpFields
      [] type = "RELAX" -> RlxFields
      [] OTHER -> IntTriFields

\* the values of the members F of a block
Block(l, F) == [f \in F |-> l[f]]

\* the coefficient exp_x holds after run_lfo on l, given the one before:
\* run_exp_lfo assigns exp_ik at the upper bound and exp_k at the lower one
ExpDirAfter(l, dir) ==
    IF l.lfo_type # "EXP" THEN dir
    ELSE LET v == RunExpLfo(l).lp.exp_sv
         IN  IF v >= l.exp_max THEN "decay"
             ELSE IF v <= l.exp_min THEN "growth"
             ELSE dir

\* set_lfo_type
SetLfoType(l, type) == [l EXCEPT !.lfo_type = type]

(* ------------------------- the LFO's calls ----------------------------- *)
\* one call of update_lfo
update_lfo(fosc, fs) ==
    /\ lp' = UpdateLfo(lp, fosc, fs)
    /\ nUpdates' = nUpdates + 1
    /\ UNCHANGED <<lfo_out, initArgs, nRun, allIntTri, expDir, delayVars, renderVars>>

\* one call of set_lfo_type
set_lfo_type(type) ==
    /\ lp' = SetLfoType(lp, type)
    /\ UNCHANGED <<lfo_out, initArgs, nRun, nUpdates, allIntTri, expDir, delayVars, renderVars>>

\* one call of run_lfo
run_lfo ==
    LET r == RunLfo(lp)
    IN  /\ lp' = r.lp
        /\ lfo_out' = r.out
        /\ nRun' = nRun + 1
        /\ allIntTri' = (allIntTri /\ lp.lfo_type = "INT_TRI")
        /\ expDir' = ExpDirAfter(lp, expDir)
        /\ UNCHANGED <<initArgs, nUpdates, delayVars, renderVars>>

(* ------------------------------ render --------------------------------- *)
\* setup: gAudioFramesPerAnalogFrame = audioFrames / analogFrames, when
\* there are analog frames (it stays 0 otherwise)
gAudioFramesPerAnalogFrame ==
    IF AnalogFrames # 0 THEN AudioFrames \div AnalogFrames ELSE 0

\* gPlaybackSpeed = -2.0f + speedVal * 4.0f; the knob value speedVal is held
\* in 1/(4*Scale) units, so that every speed of the 1/Scale grid can be set
PlaybackSpeed(speedVal) == -2 * Scale + speedVal

\* if(lfoDepth < 0.0f) lfoDepth = 0.0f; if(lfoDepth > 1.0f) lfoDepth = 1.0f;
ClampDepth(lfoDepth) ==
    LET a == IF lfoDepth < 0 THEN 0 ELSE lfoDepth
    IN  IF a > Scale THEN Scale ELSE a

\* the delay time render derives from the LFO value and the depth knob:
\* base 0.1 s, offset mod * 1.9 * lfoDepth, clamped to [0.01, 2.0]
NewDelayTime(lfoVal, lfoDepth) ==
    LET mod == 2 * (lfoVal - Fx(1, 2))
        offset == Trunc(mod * Fx(19, 10) * lfoDepth, Scale * Scale)
        t0 == Fx(1, 10) + offset
        t1 == IF t0 < Fx(1, 100) THEN Fx(1, 100) ELSE t0
    IN  IF t1 > 2 * Scale THEN 2 * Scale ELSE t1

\* a % b as C computes it for b > 0: the sign of the dividend
CRem(a, b) == a - b * Trunc(a, b)

\* (int)readIndex % gBufferSize
PlayIndex(ri) == CRem(Trunc(ri, Scale), gBufferSize)

\* The spacing of the floats around v: the least power of two s (in 1/Scale
\* units, at least one unit) with |v| < 2^FloatBits * s.
RECURSIVE Ulp(_, _)
Ulp(v, s) == IF Abs(v) < (2 ^ FloatBits) * s THEN s ELSE Ulp(v, 2 * s)

\* A value stored in a float: rounded to the nearest multiple of the spacing
\* at its magnitude, a tie going to the even multiple.
FloatRound(v) ==
    LET s == Ulp(v, 1)
        q == Abs(v) \div s
        rest == Abs(v) - q * s
        m == IF 2 * rest < s THEN q
             ELSE IF 2 * rest > s THEN q + 1
             ELSE IF q % 2 = 0 THEN q ELSE q + 1
    IN  IF v >= 0 THEN m * s ELSE -(m * s)

\* gBufferSize converted to float for the comparison and the wrap
FloatBufferSize == FloatRound(gBufferSize * Scale)

\* readIndex += gPlaybackSpeed, then one wrap step either way, each result
\* stored in the float readIndex
AdvanceRead(ri, speed) ==
    LET r == FloatRound(ri + speed)
    IN  IF r < 0 THEN FloatRound(r + FloatBufferSize)
        ELSE IF r >= FloatBufferSize THEN FloatRound(r - FloatBufferSize)
        ELSE r

\* A record step that stores instead of adding.
RecordOverwrite(old, processedIn) == 3 * processedIn

\* gAudioBuffer[gWritePointer] += (processedIn * 0.75f), in 1/(4*Scale) units
RecordAdd(old, processedIn) == old + 3 * processedIn

\* The looper's write cursor advanced without its wrap.
AdvanceLooperWriteNoWrap(wp) == wp + 1

\* gWritePointer = (gWritePointer + 1) % gBufferSize
AdvanceLooperWrite(wp) == (wp + 1) % gBufferSize

\* A press detected by level: the button is down.
PressLevel(buttonState, last) == buttonState = 1

\* if(buttonState == 1 && localLastButtonState == 0)
Press(buttonState, last) == buttonState = 1 /\ last = 0

\* An indicator that is switched on by every press.
LedAlwaysHigh(recording) == "HIGH"

\* the level the toggle writes to gLEDPin: LOW when it stops recording,
\* HIGH when it starts
LedAfterToggle(recording) == IF recording THEN "LOW" ELSE "HIGH"

\* A toggle that leaves the playing flag as it was.
PlayingKept(recording, playing) == playing

\* gPlaying = true, in both branches of the toggle
PlayingAfterToggle(recording, playing) == TRUE

\* A clear that leaves the recording flag as the toggle set it.
RecordingKeptByClear(doClear, recording) == recording

\* gRecording = false in the clear, after the toggle
RecordingAfterClear(doClear, recording) == IF doClear THEN FALSE ELSE recording

\* A clear that leaves the buffer's content.
ClearBufferKeep(buf) == buf

\* std::fill(gAudioBuffer.begin(), gAudioBuffer.end(), 0.0f)
ClearBuffer(buf) == [i \in DOMAIN buf |-> 0]

\* A guard that is never released.
ReleaseGuardNever(clearButtonState, last, once) == once

\* if(clearButtonState == 0 && localLastClearButtonState == 1) gClearedOnce = false;
ReleaseGuard(clearButtonState, last, once) ==
    IF clearButtonState = 0 /\ last = 1 THEN FALSE ELSE once

\* One pass of render's loop body after the analog block: d1 and speed are
\* the delay effect and the playback speed the analog block left.
Frame(d1, speed, in, buttonState, clearButtonState) ==
    LET press == Press(buttonState, localLastButtonState)
        recA == IF press THEN ~gRecording ELSE gRecording
        playA == IF press THEN PlayingAfterToggle(gRecording, gPlaying) ELSE gPlaying
        ledA == IF press THEN LedAfterToggle(gRecording) ELSE led
        doClear == /\ clearButtonState = 1
                   /\ localLastClearButtonState = 0
                   /\ ~gClearedOnce
        bufB == IF doClear THEN ClearBuffer(gAudioBuffer) ELSE gAudioBuffer
        wpB == IF doClear THEN 0 ELSE gWritePointer
        riB == IF doClear THEN 0 ELSE readIndex
        recB == RecordingAfterClear(doClear, recA)
        playB == IF doClear THEN FALSE ELSE playA
        ledB == IF doClear THEN "LOW" ELSE ledA
        onceB == IF doClear THEN TRUE ELSE gClearedOnce
        onceC == ReleaseGuard(clearButtonState, localLastClearButtonState, onceB)
        wpC == IF recB THEN AdvanceLooperWrite(wpB) ELSE wpB
        slot == PlayIndex(riB)
    IN  \E r \in {ProcessSample(d1, in)} :
        LET bufC == IF recB THEN [bufB EXCEPT ![wpB] = RecordAdd(@, r.output)]
                    ELSE bufB
            outC == IF recB THEN 4 * r.output ELSE 0
        IN
        /\ delayEffect' = IF recB THEN r.d ELSE d1
        /\ output' = IF recB THEN r.output ELSE output
        /\ floorPos' = IF recB THEN r.floorPos ELSE floorPos
        /\ nextPos' = IF recB THEN r.nextPos ELSE nextPos
        /\ nCalls' = IF recB THEN nCalls + 1 ELSE nCalls
        /\ gRecording' = recB
        /\ gPlaying' = playB
        /\ led' = ledB
        /\ gClearedOnce' = onceC
        /\ gReadPointer' = IF doClear THEN 0 ELSE gReadPointer
        /\ localLastButtonState' = buttonState
        /\ localLastClearButtonState' = clearButtonState
        /\ gAudioBuffer' = bufC
        /\ gWritePointer' = wpC
        /\ recSum' = IF recB
                     THEN [i \in 0 .. gBufferSize - 1 |->
                             IF i = wpB
                             THEN (IF doClear THEN 0 ELSE recSum[i]) + r.output
                             ELSE (IF doClear THEN 0 ELSE recSum[i])]
                     ELSE IF doClear THEN [i \in 0 .. gBufferSize - 1 |-> 0]
                     ELSE recSum
        /\ out' = IF playB THEN outC + bufC[slot] ELSE outC
        /\ readIndex' = IF playB THEN AdvanceRead(riB, speed) ELSE riB
        /\ gPlaybackSpeed' = speed
        /\ recSlot' = IF recB THEN wpB ELSE -1
        /\ playSlot' = IF playB THEN slot ELSE -1
        /\ cleared' = doClear
        /\ pressed' = press
        /\ playSample' = IF playB THEN bufC[slot] ELSE 0
        /\ zeroSinceClear' = IF doClear THEN TRUE
                             ELSE IF recB /\ r.output # 0 THEN FALSE
                             ELSE zeroSinceClear
        /\ n' = (n + 1) % AudioFrames
        /\ nTicks' = nTicks + 1
        /\ UNCHANGED <<dpc, initArgs, nUpdates>>

\* A frame on which the analog knobs are read: setMix, setFeedback, the
\* playback speed, one run_lfo and setDelayTime, then the rest of the body.
ControlTick(in, buttonState, clearButtonState, analogMix, analogFb, speedVal, lfoDepth) ==
    /\ gAudioFramesPerAnalogFrame # 0
    /\ n % gAudioFramesPerAnalogFrame = 0
    /\ \E l \in {RunLfo(lp)} :
       LET t == NewDelayTime(l.out, ClampDepth(lfoDepth))
       IN  /\ lp' = l.lp
           /\ lfo_out' = l.out
           /\ nRun' = nRun + 1
           /\ allIntTri' = (allIntTri /\ lp.lfo_type = "INT_TRI")
           /\ expDir' = ExpDirAfter(lp, expDir)
           /\ lastDelayTimeSec' = t
           /\ \E d1 \in SetDelayTime(SetFeedback(SetMix(delayEffect, analogMix),
                                                 analogFb), t) :
                 Frame(d1, PlaybackSpeed(speedVal), in, buttonState, clearButtonState)

\* A frame on which the knobs are not read.
SampleTick(in, buttonState, clearButtonState) ==
    /\ ~(gAudioFramesPerAnalogFrame # 0 /\ n % gAudioFramesPerAnalogFrame = 0)
    /\ Frame(delayEffect, gPlaybackSpeed, in, buttonState, clearButtonState)
    /\ UNCHANGED <<lp, lfo_out, nRun, allIntTri, expDir, lastDelayTimeSec>>

(* ------------------------------ inputs --------------------------------- *)
\* base rates in Hz; every one has a per-sample triangle step 2*fosc/fs below 1
LfoRates == {Scale, 3 * Scale}
LfoSampleRates == {8}
LfoPhases == {-90, 0, 90, 180}
\* the selectable types, and one value outside the enumeration
LfoTypeArgs == LfoTypes \cup {"OTHER"}

SampleRates == {2, 4}
\* requested delay times, in seconds: negative, zero, fractional products,
\* whole products, requests beyond the buffer length, and one whose product
\* with the higher sample rate is 2^w, beyond the range of unsigned int
DelayTimes == {-Scale, 0, Fx(3, 10), Fx(1, 2), 3 * Scale,
               (UIntModulus \div 4) * Scale}
\* knob values, in and out of [0,1]
Amounts == {-(Scale \div 2), 0, Scale \div 2, Scale, 2 * Scale}
Gains == {-(Scale \div 2), Scale, 2 * Scale}
Inputs == {0, Scale}

\* what render reads: audio samples, button levels, knob positions
Levels == {0, 1}
MixKnob == {0, Scale}
FeedbackKnob == {Fx(7, 10)}
\* speeds -2.0, -0.01, 1.0 and 2.0
SpeedKnob == {0, 2 * Scale - 1, 3 * Scale, 4 * Scale}
DepthKnob == {0, Scale}

(* --------------------------- initial states ---------------------------- *)
\* the LFO as init_lfo(gLFO, fosc, fs, phase) leaves it
LfoInitWith(fosc, fs, phase) ==
    /\ lp = InitLfo(fosc, fs, phase)
    /\ initArgs = [fosc |-> fosc, fs |-> fs, phase |-> phase]
    /\ lfo_out = 0
    /\ nRun = 0
    /\ nUpdates = 0
    /\ allIntTri = TRUE
    /\ expDir = "decay"

\* the delay line as DelayEffect(sr, t, fb, bs) leaves it
DelayInitWith(sr, t, fb, bs) ==
    /\ delayEffect \in Construct(sr, t, fb, bs)
    /\ lastDelayTimeSec = t
    /\ floorPos = 0
    /\ nextPos = 0
    /\ output = 0
    /\ dpc = "ready"
    /\ nCalls = 0

\* render.cpp's globals as their initialisers and setup leave them
LooperInit ==
    /\ gAudioBuffer = [i \in 0 .. gBufferSize - 1 |-> 0]
    /\ gWritePointer = 0
    /\ gReadPointer = 0
    /\ readIndex = 0
    /\ gRecording = FALSE
    /\ gPlaying = FALSE
    /\ gClearedOnce = FALSE
    /\ gPlaybackSpeed = Scale
    /\ localLastButtonState = 0
    /\ localLastClearButtonState = 0
    /\ led = "LOW"
    /\ out = 0
    /\ n = 0
    /\ recSum = [i \in 0 .. gBufferSize - 1 |-> 0]
    /\ recSlot = -1
    /\ playSlot = -1
    /\ cleared = FALSE
    /\ pressed = FALSE
    /\ playSample = 0
    /\ zeroSinceClear = FALSE
    /\ nTicks = 0

\* DelayEffect delayEffect(44100, 0.5f, 0.7f, 44100): one second of buffer
RenderDelayInit == DelayInitWith(RenderRate, Fx(1, 2), Fx(7, 10), RenderRate)

\* gLFO = init_lfo(gLFO, 0.1f, fs, 0.0f); set_lfo_type(gLFO, SINE);
RenderLfoInit ==
    /\ lp = SetLfoType(InitLfo(Fx(1, 10), RenderRate, 0), "SINE")
    /\ initArgs = [fosc |-> Fx(1, 10), fs |-> RenderRate, phase |-> 0]
    /\ lfo_out = 0
    /\ nRun = 0
    /\ nUpdates = 0
    /\ allIntTri = TRUE
    /\ expDir = "decay"

(* ------------------------- the whole program --------------------------- *)
Init == RenderDelayInit /\ RenderLfoInit /\ LooperInit

Next ==
    \/ /\ nTicks < MaxTicks
       /\ \E in \in Inputs, b \in Levels, c \in Levels, mx \in MixKnob,
             fb \in FeedbackKnob, sp \in SpeedKnob, dp \in DepthKnob :
             ControlTick(in, b, c, mx, fb, sp, dp)
    \/ /\ nTicks < MaxTicks
       /\ \E in \in Inputs, b \in Levels, c \in Levels : SampleTick(in, b, c)

Spec == Init /\ [][Next]_vars

(* ------------------- the delay line driven on its own ------------------ *)
DelayInit ==
    /\ \E sr \in SampleRates, t \in DelayTimes, fb \in {0, Scale}, bs \in 0 .. MaxBuf :
          DelayInitWith(sr, t, fb, bs)
    /\ RenderLfoInit
    /\ LooperInit

DelayNext ==
    \/ \E t \in DelayTimes : setDelayTime(t)
    \/ \E a \in Gains : setFeedback(a)
    \/ \E a \in Gains : setMix(a)
    \/ \E a \in Amounts : setTimeSmoothingFactor(a)
    \/ nCalls < MaxCalls /\ \E in \in Inputs : processSample(in)

SpecDelay == DelayInit /\ [][DelayNext]_vars

(* --------------- the delay line fed an impulse, then zeros ------------- *)
\* a delay time, in seconds, whose product with the sample rate is D samples
TimeFor(D, sr) == (D * Scale + sr - 1) \div sr

ImpulseInit ==
    /\ \E sr \in SampleRates, bs \in 1 .. MaxImpulseBuf :
          \E D \in 0 .. bs - 1 : DelayInitWith(sr, TimeFor(D, sr), 0, bs)
    /\ RenderLfoInit
    /\ LooperInit

ImpulseNext ==
    \/ nCalls = 0 /\ delayEffect.mix # Scale /\ setMix(Scale)
    \/ /\ delayEffect.mix = Scale
       /\ nCalls < 2 * delayEffect.bufferSize + 2
       /\ processSample(IF nCalls = 0 THEN Scale ELSE 0)

SpecImpulse == ImpulseInit /\ [][ImpulseNext]_vars

(* ---------------------- the LFO driven on its own ---------------------- *)
LfoInit ==
    /\ \E fosc \in LfoRates, fs \in LfoSampleRates, phase \in LfoPhases :
          LfoInitWith(fosc, fs, phase)
    /\ RenderDelayInit
    /\ LooperInit

LfoNext ==
    \/ nUpdates < MaxLfoUpdates /\
         \E fosc \in LfoRates \cup {0} : update_lfo(fosc, initArgs.fs)
    \/ \E type \in LfoTypeArgs : set_lfo_type(type)
    \/ nRun < MaxLfoRuns /\ run_lfo

SpecLfo == LfoInit /\ [][LfoNext]_vars

(* ------------------------------ properties ----------------------------- *)
\* C1: with feedback 0, mix 1 and the delay settled at D samples, a unit
\* impulse fed at sample 0 and followed by zeros comes out as 1 at sample D
\* and as 0 at every other sample, for every D in 0 .. capacity-1.
C1_ImpulseDelayedByD ==
    (nCalls >= 1 /\ delayEffect.mix = Scale /\ delayEffect.feedback = 0) =>
        output = IF (nCalls - 1) * Scale = delayEffect.targetDelayTimeInSamples
                 THEN Scale ELSE 0

\* C2: on a delay line that has a buffer, whatever delay times were
\* requested between the processSample calls, the two slots the
\* interpolation reads and the write cursor are indices in [0, capacity).
C2_IndicesInRange ==
    delayEffect.bufferSize >= 1 =>
        /\ floorPos \in 0 .. delayEffect.bufferSize - 1
        /\ nextPos \in 0 .. delayEffect.bufferSize - 1
        /\ delayEffect.writePointer \in 0 .. delayEffect.bufferSize - 1

\* C2 happens: after a request beyond the buffer length, a call has read
\* the last slot and, wrapped, slot 0, with the write cursor wrapped too.
C2_Witness ==
    /\ nCalls >= 2
    /\ delayEffect.bufferSize = MaxBuf
    /\ lastDelayTimeSec = 3 * Scale
    /\ floorPos = MaxBuf - 1
    /\ nextPos = 0
    /\ delayEffect.writePointer = 0

\* C3: the target delay is clamp(seconds * sampleRate, 0, capacity - 1) for
\* the value last requested: 0 for a negative request, capacity - 1 for one
\* beyond the buffer, and exactly seconds * sampleRate in between.
C3_TargetIsClampedProduct ==
    delayEffect.bufferSize >= 1 =>
        delayEffect.targetDelayTimeInSamples =
            clampValue(lastDelayTimeSec * delayEffect.sampleRate, 0,
                       (delayEffect.bufferSize - 1) * Scale)

\* C4: the current delay changes only in a processSample step (so never in
\* setDelayTime), where it becomes current + f * (target - current) with f
\* in [0,1]: it stays between its old value and the target, so the distance
\* to the target does not grow and the target is not overshot.
C4_SmoothingOnlyInProcessSample ==
    [][LET c == delayEffect.currentDelayTimeInSamples
           c2 == delayEffect'.currentDelayTimeInSamples
           t == delayEffect.targetDelayTimeInSamples
           f == delayEffect.timeSmoothingFactor
       IN  /\ c2 # c => nCalls' = nCalls + 1
           /\ nCalls' = nCalls + 1 =>
                 /\ 0 <= f /\ f <= Scale
                 /\ c2 = c + Trunc(f * (t - c), Scale)
                 /\ delayEffect'.targetDelayTimeInSamples = t
                 /\ Abs(t - c2) <= Abs(t - c)
                 /\ c <= t => (c <= c2 /\ c2 <= t)
                 /\ c >= t => (t <= c2 /\ c2 <= c)]_vars

\* C4 happens: processSample calls have moved the current delay part of the
\* way to a target that setDelayTime changed.
C4_Witness ==
    /\ nCalls >= 1
    /\ delayEffect.currentDelayTimeInSamples % Scale # 0
    /\ delayEffect.currentDelayTimeInSamples # delayEffect.targetDelayTimeInSamples
    /\ delayEffect.timeSmoothingFactor = Scale \div 2

\* C5: a capacity of zero is rejected at construction, so no processSample
\* step is ever taken on a delay line of capacity 0.
C5_NoStepWithZeroCapacity == ~(delayEffect.bufferSize = 0 /\ nCalls > 0)

\* C6 as stated: for any two distinct types A and B, run_lfo with B
\* selected leaves every member used by A as it was, and set_lfo_type
\* changes no member of any oscillator.
C6_DistinctTypesFrozen ==
    [][/\ (nRun' = nRun + 1 /\ lp.lfo_type \in LfoTypes) =>
             \A A \in LfoTypes \ {lp.lfo_type} :
                 Block(lp', UsedBy(A)) = Block(lp, UsedBy(A))
       /\ lp'.lfo_type # lp.lfo_type =>
             \A A \in LfoTypes : Block(lp', UsedBy(A)) = Block(lp, UsedBy(A))]_vars

\* C6: for any two types A and B that run different oscillators (sine,
\* square and hyper-sine run the sine oscillator, integrated-triangle and
\* hyper the integrated triangle), run_lfo with B selected leaves every
\* member used by A as it was, and set_lfo_type changes no member of any
\* oscillator: selecting B, stepping and selecting A again leaves A's state.
C6_OtherOscillatorsFrozen ==
    [][/\ (nRun' = nRun + 1 /\ lp.lfo_type \in LfoTypes) =>
             \A A \in LfoTypes :
                 UsedBy(A) # UsedBy(lp.lfo_type) =>
                     Block(lp', UsedBy(A)) = Block(lp, UsedBy(A))
       /\ lp'.lfo_type # lp.lfo_type =>
             \A A \in LfoTypes : Block(lp', UsedBy(A)) = Block(lp, UsedBy(A))]_vars

\* C6 happens: the integrated triangle was stepped, then another type was
\* selected and stepped the sine oscillator, and the integrated triangle
\* is selected again.
C6_Witness ==
    /\ lp.lfo_type = "INT_TRI"
    /\ ~allIntTri
    /\ nRun >= 2
    /\ lp.x # 0
    /\ lp.sin_part # SinDeg(initArgs.phase)
    /\ lp.trilfo = InitLfo(initArgs.fosc, initArgs.fs, initArgs.phase).trilfo

\* C7: update_lfo leaves the integrated triangle's position and
\* accumulator, the triangle's phase and sign, the sine pair, the
\* relaxation output and target, the startup counter and the selected type
\* as they were, and the exponential value too when it is within its bounds.
C7_UpdateKeepsState ==
    [][nUpdates' = nUpdates + 1 =>
          /\ lp'.x = lp.x /\ lp'.lfo = lp.lfo
          /\ lp'.trilfo = lp.trilfo /\ lp'.trisign = lp.trisign
          /\ lp'.sin_part = lp.sin_part /\ lp'.cos_part = lp.cos_part
          /\ lp'.rlx_lfo = lp.rlx_lfo /\ lp'.rlx_sign = lp.rlx_sign
          /\ lp'.startup_delay = lp.startup_delay
          /\ lp'.lfo_type = lp.lfo_type
          /\ (lp.exp_min <= lp.exp_sv /\ lp.exp_sv <= lp.exp_max) =>
                lp'.exp_sv = lp.exp_sv]_vars

\* C7 happens: update_lfo has changed the rate of an LFO whose integrated
\* triangle and triangle had moved and whose selected type is not the
\* initial one.
C7_Witness ==
    /\ nUpdates >= 1
    /\ lp.current_rate # initArgs.fosc
    /\ lp.k_ # lp.k
    /\ lp.x # 0
    /\ lp.trilfo # InitLfo(initArgs.fosc, initArgs.fs, initArgs.phase).trilfo
    /\ lp.lfo_type = "TRI"

\* C8: with the triangle selected, every value run_lfo returns is in [0,1].
C8_TriangleInUnitRange ==
    [][(nRun' = nRun + 1 /\ lp.lfo_type = "TRI") =>
          (0 <= lfo_out' /\ lfo_out' <= Scale)]_vars

\* C9: after init_lfo with phase p, while only the integrated triangle has
\* been stepped, the startup counter is N minus the number of calls and
\* never below 0, with N = floor(|p|/180 * fs / (2 * fosc)); the first N
\* calls return 0 and leave position, accumulator and step sign alone, and
\* call N+1 moves the position or turns the sign.
C9_StartupDelay ==
    LET N == (Abs(initArgs.phase) * initArgs.fs * Scale) \div (360 * initArgs.fosc)
        t0 == StepT(initArgs.fosc, initArgs.fs)
    IN  allIntTri =>
          /\ lp.startup_delay >= 0
          /\ lp.startup_delay = IF nRun <= N THEN N - nRun ELSE 0
          /\ nRun <= N => (lfo_out = 0 /\ lp.x = 0 /\ lp.lfo = 0 /\ lp.sign = t0)
          /\ nRun = N + 1 => (lp.x # 0 \/ lp.sign # t0)

\* C9 happens: with a startup count of 2, the third call has stepped the
\* recurrence.
C9_Witness ==
    /\ allIntTri
    /\ StartupDelay(initArgs.fosc, initArgs.fs, initArgs.phase) = 2
    /\ initArgs.phase < 0
    /\ nRun = 3
    /\ lp.startup_delay = 0
    /\ lp.x # 0
    /\ lfo_out # 0

\* C10: every looper slot holds 0.75 times the sum of the samples recorded
\* into it since the last clear (the buffer is held in quarters of a sample
\* unit, so 0.75 of a sum is 3 times it): overdub adds, it never overwrites.
C10_OverdubAdditive ==
    \A i \in 0 .. gBufferSize - 1 : gAudioBuffer[i] = 3 * recSum[i]

\* C10 happens: the sample 1.0 was recorded into slot 0, the write cursor
\* went once around the buffer, and 1.0 was recorded into slot 0 again: the
\* slot holds 2 * 0.75.
C10_Witness ==
    /\ gRecording
    /\ recSlot = 0
    /\ nCalls = gBufferSize + 1
    /\ gWritePointer = 1
    /\ recSum[0] = 2 * Scale
    /\ gAudioBuffer[0] = 6 * Scale

\* C11: on a tick that records, the looper's write cursor advances by 1
\* modulo the capacity and no slot but the one at the old cursor changes;
\* on a tick that neither records nor clears, the cursor and every slot
\* stay as they were, whatever is played; the cursor is always an index in
\* [0, capacity).
C11_WriteCursorFrame ==
    [][/\ gWritePointer \in 0 .. gBufferSize - 1
       /\ gWritePointer' \in 0 .. gBufferSize - 1
       /\ (nTicks' = nTicks + 1 /\ gRecording') =>
             /\ gWritePointer' = (gWritePointer + 1) % gBufferSize
             /\ recSlot' = gWritePointer
             /\ \A i \in 0 .. gBufferSize - 1 :
                   i # gWritePointer => gAudioBuffer'[i] = gAudioBuffer[i]
       /\ (nTicks' = nTicks + 1 /\ ~gRecording' /\ ~cleared') =>
             /\ gWritePointer' = gWritePointer
             /\ gAudioBuffer' = gAudioBuffer]_vars

\* C11 happens: recording has filled the last slot and wrapped the write
\* cursor to 0, and the tick also played a slot.
C11_Witness ==
    /\ gRecording
    /\ recSlot = gBufferSize - 1
    /\ gWritePointer = 0
    /\ gAudioBuffer[gBufferSize - 1] # 0
    /\ playSlot # -1

\* C12: after every playback read, whatever the speed, the read cursor is
\* in [0, capacity) and the slot the read used is an index in [0, capacity).
C12_ReadCursorInRange ==
    /\ 0 <= readIndex /\ readIndex < gBufferSize * Scale
    /\ playSlot # -1 => playSlot \in 0 .. gBufferSize - 1

\* C13: a tick that clears leaves every looper slot 0 and the write cursor
\* and both read cursors 0; from a clear until a record step stores a
\* non-zero sample, every slot stays 0 and every playback read gives 0.
C13_ClearZeroes ==
    /\ cleared =>
          /\ \A i \in 0 .. gBufferSize - 1 : gAudioBuffer[i] = 0
          /\ gWritePointer = 0
          /\ gReadPointer = 0
          /\ readIndex = 0
    /\ zeroSinceClear =>
          /\ \A i \in 0 .. gBufferSize - 1 : gAudioBuffer[i] = 0
          /\ playSample = 0
          /\ out = 0

\* C13 happens: a tick recorded, a later one cleared, and playback at speed
\* 1 has since read every slot once and wrapped, reading 0 each time.
C13_Witness ==
    /\ zeroSinceClear
    /\ gPlaying
    /\ nCalls > nTicks - 2
    /\ gPlaybackSpeed = Scale
    /\ playSlot = gBufferSize - 1
    /\ readIndex = 0

\* C14: the clear happens exactly on the ticks where the clear control goes
\* from released to pressed, so once per press however long it is held; the
\* guard flag is true after that tick and on every tick the control stays
\* held, and it goes back to false only on a tick that sees the control
\* released after a tick that saw it pressed; a tick in the hold clears
\* nothing, so what is recorded during the hold stays.
C14_ClearOncePerPress ==
    [][nTicks' = nTicks + 1 =>
          LET last == localLastClearButtonState
              now == localLastClearButtonState'
          IN  /\ cleared' <=> (last = 0 /\ now = 1)
              /\ cleared' => gClearedOnce'
              /\ (last = 1 /\ now = 1) =>
                    /\ gClearedOnce /\ gClearedOnce'
                    /\ ~cleared'
                    /\ \A i \in 0 .. gBufferSize - 1 :
                          gAudioBuffer[i] # 0 => gAudioBuffer'[i] # 0
              /\ (gClearedOnce /\ ~gClearedOnce') => (last = 1 /\ now = 0)
              /\ (last = 1 /\ now = 0) => ~gClearedOnce']_vars

\* C14 happens: the clear control has been held past the tick of its
\* clear, the guard flag is true, and a sample recorded during the hold is
\* still in the buffer.
C14_Witness ==
    /\ localLastClearButtonState = 1
    /\ gClearedOnce
    /\ ~cleared
    /\ gRecording
    /\ nCalls < nTicks
    /\ \E i \in 0 .. gBufferSize - 1 : gAudioBuffer[i] # 0

\* C15: on a tick that does not clear, a press of the record/play control
\* (released on the tick before, pressed now) while not recording sets
\* recording and playing, a press while recording ends recording and leaves
\* playing set, and without a press (control held, or released) neither
\* flag changes; on every tick that ends with both flags set, a slot is
\* recorded into and a slot is played.
C15_ToggleOnRisingEdge ==
    [][nTicks' = nTicks + 1 =>
          LET last == localLastButtonState
              now == localLastButtonState'
              press == last = 0 /\ now = 1
          IN  /\ (~cleared' /\ press /\ ~gRecording) => (gRecording' /\ gPlaying')
              /\ (~cleared' /\ press /\ gRecording) => (~gRecording' /\ gPlaying')
              /\ (~cleared' /\ ~press) =>
                    (gRecording' = gRecording /\ gPlaying' = gPlaying)
              /\ (gRecording' /\ gPlaying') =>
                    (recSlot' = gWritePointer /\ playSlot' # -1)
              /\ ~gRecording' => recSlot' = -1
              /\ ~gPlaying' => playSlot' = -1]_vars

\* C15 happens: the control was pressed and then held over further ticks;
\* recording and playing are both set and the last tick recorded and played.
C15_Witness ==
    /\ gRecording
    /\ gPlaying
    /\ localLastButtonState = 1
    /\ nCalls >= 3
    /\ recSlot # -1
    /\ playSlot # -1
    /\ playSample # 0

\* C16: after every tick the level last written to the indicator pin is HIGH
\* exactly when recording is set, whatever presses and clears there were.
C16_LedIsRecording == (led = "HIGH") <=> gRecording

\* C16 happens: recording was started and stopped again by a second press,
\* and the indicator is off while playback goes on.
C16_Witness ==
    /\ led = "LOW"
    /\ ~gRecording
    /\ gPlaying
    /\ nCalls >= 1
    /\ playSlot # -1

\* C17: every tick passes the input through processSample, recording or not:
\* each tick is one more call, moves the delay line's write cursor by one
\* and takes its smoothing step.
C17_DelayRunsEveryTick ==
    [][nTicks' = nTicks + 1 =>
          /\ nCalls' = nCalls + 1
          /\ delayEffect'.writePointer =
                (delayEffect.writePointer + 1) % delayEffect.bufferSize]_vars

\* C18: once the rate is zero, run_lfo returns the same value on every
\* call: after a call made at rate zero, the next call returns what that
\* one returned, whatever the selected type.
C18_ZeroRateStatic ==
    [][(nRun' = nRun + 1 /\ lp.current_rate = 0) =>
          RunLfo(lp').out = lfo_out']_vars

\* C19: update_lfo leaves the integrated triangle's step sign, bounds and
\* position; a step of the integrated triangle that stays inside the
\* bounds in force keeps that sign and those bounds; the step that reaches
\* the upper (lower) bound in force sets the sign to the negative
\* (positive) step of the current rate, the position to the upper (lower)
\* bound of the current rate, and puts the bounds of the current rate in
\* force; the accumulator is in [0,1] throughout.
C19_IntTriAfterUpdate ==
    [][/\ 0 <= lp.lfo /\ lp.lfo <= Scale
       /\ 0 <= lp'.lfo /\ lp'.lfo <= Scale
       /\ nUpdates' = nUpdates + 1 =>
             /\ lp'.sign = lp.sign /\ lp'.k = lp.k /\ lp'.nk = lp.nk
             /\ lp'.x = lp.x
             /\ lp'.k_ = BoundK(lp'.current_rate, initArgs.fs)
             /\ lp'.nk_ = -BoundK(lp'.current_rate, initArgs.fs)
             /\ lp'.psign_ = StepT(lp'.current_rate, initArgs.fs)
             /\ lp'.nsign_ = -StepT(lp'.current_rate, initArgs.fs)
       /\ (/\ nRun' = nRun + 1
           /\ UsedBy(lp.lfo_type) = IntTriFields
           /\ lp.startup_delay = 0) =>
             LET x1 == lp.x + lp.sign
             IN  /\ (lp.nk < x1 /\ x1 < lp.k) =>
                       /\ lp'.x = x1
                       /\ lp'.sign = lp.sign /\ lp'.k = lp.k /\ lp'.nk = lp.nk
                 /\ x1 >= lp.k =>
                       /\ lp'.sign = lp.nsign_ /\ lp'.x = lp.k_
                       /\ lp'.k = lp.k_ /\ lp'.nk = lp.nk_
                 /\ (x1 < lp.k /\ x1 <= lp.nk) =>
                       /\ lp'.sign = lp.psign_ /\ lp'.x = lp.nk_
                       /\ lp'.k = lp.k_ /\ lp'.nk = lp.nk_]_vars

\* C19 happens: the rate was changed while the integrated triangle was
\* inside its old bounds, and a later step reached the old upper bound and
\* turned with the new step and the new bounds.
C19_Witness ==
    /\ nUpdates >= 1
    /\ nRun >= 2
    /\ lp.current_rate # initArgs.fosc
    /\ lp.k = lp.k_
    /\ lp.k # BoundK(initArgs.fosc, initArgs.fs)
    /\ lp.x = lp.k_
    /\ lp.sign = lp.nsign_
    /\ lp.sign < 0

\* C20: update_lfo keeps the exponential oscillator's direction: after the
\* call exp_x is the new growth coefficient if the oscillator was growing
\* and the new decay coefficient if it was decaying, over every sequence of
\* rates, zero included; and exp_sv is within [exp_min, exp_max].
C20_ExpDirectionKept ==
    [][nUpdates' = nUpdates + 1 =>
          /\ expDir = "growth" => lp'.exp_x = lp'.exp_k
          /\ expDir = "decay" => lp'.exp_x = lp'.exp_ik
          /\ lp'.exp_min <= lp'.exp_sv /\ lp'.exp_sv <= lp'.exp_max]_vars

\* C21: recording implies playing in every state, and playing goes from
\* true to false only on a tick that clears.
C21_RecordingImpliesPlaying ==
    [][/\ gRecording => gPlaying
       /\ gRecording' => gPlaying'
       /\ (gPlaying /\ ~gPlaying') => (nTicks' = nTicks + 1 /\ cleared')]_vars

\* C21 happens: after ticks that recorded and played, a tick with only the
\* clear control pressed ended playing.
C21_Witness ==
    /\ cleared
    /\ ~pressed
    /\ ~gPlaying
    /\ ~gRecording
    /\ nCalls >= 2
    /\ nTicks >= 4

\* C22: on a tick where the record/play control and the clear control both
\* go from released to pressed, the clear wins: after the tick recording and
\* playing are false, the indicator is off, every looper slot and every
\* cursor is 0, nothing was recorded or played and the output sample is 0.
C22_ClearWinsOverPress ==
    [][(/\ nTicks' = nTicks + 1
        /\ localLastButtonState = 0 /\ localLastButtonState' = 1
        /\ localLastClearButtonState = 0 /\ localLastClearButtonState' = 1) =>
          /\ cleared' /\ pressed'
          /\ ~gRecording' /\ ~gPlaying'
          /\ led' = "LOW"
          /\ \A i \in 0 .. gBufferSize - 1 : gAudioBuffer'[i] = 0
          /\ gWritePointer' = 0 /\ gReadPointer' = 0 /\ readIndex' = 0
          /\ recSlot' = -1 /\ playSlot' = -1
          /\ nCalls' = nCalls
          /\ out' = 0]_vars

\* C22 happens: after ticks that recorded, one tick saw both controls
\* pressed and cleared.
C22_Witness ==
    /\ cleared
    /\ pressed
    /\ nCalls >= 2
    /\ ~gRecording
    /\ ~gPlaying
    /\ led = "LOW"
    /\ out = 0

====
